---- MODULE Spec2Model ----
(***************************************************************************)
(* Model of tntnet's framework/common/job.cpp: the bounded blocking        *)
(* Jobqueue (put/get under one mutex with the conditions notFull,          *)
(* notEmpty and noWaitThreads) and the accept / regenerate / handshake     *)
(* protocol of Tcpjob::getStream and SslTcpjob::getStream.                 *)
(***************************************************************************)
EXTENDS Integers, Sequences, FiniteSets, TLC

\* ---- bounds of the model ------------------------------------------------
NThreads == 3
NWorkers == 2
MaxJobs == 3
MaxPuts == 3
MaxCapacity == 2
MaxTime == 1
MaxQuery == 4

Threads == 1..NThreads
Capacities == 0..MaxCapacity

NoJob == 0

\* the default value of put's second parameter (declared in tnt/job.h)
DefaultForce == FALSE

\* the two listeners of the server: a plain one and an encrypted one
SeedKinds == { [kind |-> "tcp", listener |-> 1, application |-> 1],
               [kind |-> "ssl", listener |-> 2, application |-> 2] }

VARIABLES
  capacity,      \* Jobqueue::capacity (0: unbounded)
  jobs,          \* Jobqueue::jobs, a sequence of job identities
  waitThreads,   \* Jobqueue::waitThreads
  noWaitSignal,  \* TRUE iff the last put() signalled noWaitThreads
  objs,          \* the job objects constructed so far, indexed by identity
  stopping,      \* Tntnet::shouldStop()
  now,           \* the clock read by Job::touch()
  pc,            \* position of each thread
  arg,           \* put(): the parameter j
  force,         \* put(): the parameter force
  self,          \* getStream()/regenerateJob(): the job `this'
  accepted,      \* getStream(): "no" (accept() not called), "ok", "threw"
  stopRead,      \* regenerateJob(): the value shouldStop() returned
  result,        \* getStream(): "stream" when it returned, "raised" when it threw
  held,          \* the job a thread owns (obtained from get())
  enq,           \* history: the jobs the running getStream() has enqueued
  pushed,        \* history: the jobs in the order of jobs.push_back
  popped,        \* history: the jobs in the order of jobs.pop_front
  putReturned,   \* history: the jobs of the put() calls that have returned
  forcedIssued,  \* history: a put(j, true) has been called
  socket_read_timeout,  \* Job::socket_read_timeout
  timeout        \* the last call of msecToTimeout(): its inputs and its result

vars == << capacity, jobs, waitThreads, noWaitSignal, objs, stopping,
           now, pc, arg, force, self, accepted, stopRead, result, held,
           enq, pushed, popped, putReturned, forcedIssued,
           socket_read_timeout, timeout >>

queueVars == << jobs, waitThreads, noWaitSignal >>
callVars == << self, accepted, stopRead, result, enq >>
histVars == << pushed, popped, putReturned >>
timeoutVars == << socket_read_timeout, timeout >>

\* ---- helpers ------------------------------------------------------------
RECURSIVE Count(_, _)
Count(s, j) ==
  IF s = << >> THEN 0
  ELSE (IF Head(s) = j THEN 1 ELSE 0) + Count(Tail(s), j)

\* threads blocked in notFull.wait
notFull == { t \in Threads : pc[t] = "put_wait" }

\* mutant of the wait on notEmpty: the waiters are not known to the condition
notEmpty_Nobody == {}

\* threads blocked in notEmpty.wait
notEmpty == { t \in Threads : pc[t] = "get_wait" }

\* mutant of signal: the signal is not sent
Signal_Lost(p, waiters, woken) == { p }

\* Condition::signal on notEmpty / notFull: the pc function after one waiter
\* (if there is one) has been unblocked; the set of possible outcomes
Signal(p, waiters, woken) ==
  IF waiters = {} THEN { p }
  ELSE { [p EXCEPT ![w] = woken] : w \in waiters }

\* number of put() calls started so far
PutsStarted ==
  Len(pushed) + Cardinality({ t \in Threads :
       pc[t] \in {"put_lock", "put_wait", "put_woken"} })

\* Job::touch(): time(&lastAccessTime)
touch(o, j) == [o EXCEPT ![j].lastAccessTime = now]

\* mutant of put(): the job is not stamped
PutTouch_Skipped(o, j) == o

\* the first statement of Jobqueue::put: j->touch()
PutTouch(o, j) == touch(o, j)

\* constructor of Tcpjob / SslTcpjob
NewJob(k, l, a) ==
  [kind |-> k, listener |-> l, application |-> a,
   connected |-> FALSE, handshake |-> "NotStarted", lastAccessTime |-> 0]

\* no call of msecToTimeout() yet
NoTimeout == [job |-> NoJob]

\* no thread is inside a call, the server runs, the clock starts
InitCalls ==
  /\ stopping = FALSE
  /\ now = 0
  /\ arg = [t \in Threads |-> NoJob]
  /\ force = [t \in Threads |-> FALSE]
  /\ self = [t \in Threads |-> NoJob]
  /\ accepted = [t \in Threads |-> "no"]
  /\ enq = [t \in Threads |-> << >>]
  /\ stopRead = [t \in Threads |-> FALSE]
  /\ result = [t \in Threads |-> "none"]
  /\ held = [t \in Threads |-> NoJob]
  /\ forcedIssued = FALSE
  /\ timeout = NoTimeout

\* the state after construction, but for the configured read timeout
InitQueue ==
  /\ capacity \in Capacities
  /\ jobs = << >>
  /\ waitThreads = 0
  /\ noWaitSignal = FALSE
  /\ objs = << >>
  /\ pushed = << >>
  /\ popped = << >>
  /\ putReturned = << >>
  /\ InitCalls

\* the first n threads run; the others are never started ("off") and take no step
Started(n) == [t \in Threads |-> IF t <= n THEN "idle" ELSE "off"]

\* unsigned Job::socket_read_timeout = 10
Init == InitQueue /\ pc = Started(NWorkers) /\ socket_read_timeout = 10

\* ---- callers of the queue -------------------------------------------------
\* a listener seeds the queue with a new job of its kind: queue.put(new ...job, f);
\* put() starts with j->touch()
Seed(t, cfg, f) ==
  /\ pc[t] = "idle" /\ held[t] = NoJob
  /\ Len(objs) < MaxJobs /\ PutsStarted < MaxPuts
  /\ objs' = PutTouch(Append(objs, NewJob(cfg.kind, cfg.listener, cfg.application)),
                   Len(objs) + 1)
  /\ arg' = [arg EXCEPT ![t] = Len(objs) + 1]
  /\ force' = [force EXCEPT ![t] = f]
  /\ forcedIssued' = (forcedIssued \/ f)
  /\ pc' = [pc EXCEPT ![t] = "put_lock"]
  /\ UNCHANGED << timeoutVars, capacity, queueVars, stopping, now, callVars, held, histVars >>

\* a thread hands the job it owns back to the queue: queue.put(j, f);
\* put() starts with j->touch()
CallPut(t, f) ==
  /\ pc[t] = "idle" /\ held[t] # NoJob
  /\ PutsStarted < MaxPuts
  /\ objs' = PutTouch(objs, held[t])
  /\ arg' = [arg EXCEPT ![t] = held[t]]
  /\ force' = [force EXCEPT ![t] = f]
  /\ held' = [held EXCEPT ![t] = NoJob]
  /\ forcedIssued' = (forcedIssued \/ f)
  /\ pc' = [pc EXCEPT ![t] = "put_lock"]
  /\ UNCHANGED << timeoutVars, capacity, queueVars, stopping, now, callVars, histVars >>

\* the connection of the owned job is closed and the job is dropped
Discard(t) ==
  /\ pc[t] = "idle" /\ held[t] # NoJob
  /\ held' = [held EXCEPT ![t] = NoJob]
  /\ UNCHANGED << timeoutVars, capacity, queueVars, objs, stopping, now, pc, arg, force,
                  callVars, histVars, forcedIssued >>

\* ---- Jobqueue::put --------------------------------------------------------
\* Every access to jobs and waitThreads happens with the mutex held, so the
\* code between two points where the mutex is released is one step.

\* where put() returns to: regenerateJob() inside getStream(), or the caller
PutReturn(t) == IF self[t] # NoJob THEN "gs_after_regen" ELSE "idle"

\* mutants of the capacity test: an off-by-one bound; the force flag ignored
QueueFull_OffByOne(f) == ~f /\ capacity > 0 /\ Len(jobs) > capacity
QueueFull_IgnoresForce(f) == capacity > 0 /\ Len(jobs) >= capacity

\* the capacity test of put(): !force && capacity > 0 && jobs.size() >= capacity
QueueFull(f) == ~f /\ capacity > 0 /\ Len(jobs) >= capacity

\* mutant of the no-waiters test: the signal is emitted on every put
NoWaiters_Always == TRUE

\* the test before noWaitThreads.signal(): waitThreads == 0
NoWaiters == waitThreads = 0

\* put() with the mutex held: wait on notFull (releasing the mutex), or
\* jobs.push_back(j); if (waitThreads == 0) noWaitThreads.signal();
\* notEmpty.signal(); return
PutLocked(t) ==
  IF QueueFull(force[t])
    THEN /\ pc' = [pc EXCEPT ![t] = "put_wait"]
         /\ UNCHANGED << jobs, pushed, putReturned, noWaitSignal, arg, force, enq >>
    ELSE /\ jobs' = Append(jobs, arg[t])
         /\ pushed' = Append(pushed, arg[t])
         /\ putReturned' = Append(putReturned, arg[t])
         /\ noWaitSignal' = NoWaiters
         /\ pc' \in Signal([pc EXCEPT ![t] = PutReturn(t)], notEmpty, "get_woken")
         /\ arg' = [arg EXCEPT ![t] = NoJob]
         /\ force' = [force EXCEPT ![t] = FALSE]
         /\ enq' = [enq EXCEPT ![t] = IF self[t] # NoJob THEN Append(@, arg[t]) ELSE @]

\* cxxtools::MutexLock lock(mutex) and the code up to the first wait or the return
PutEnter(t) ==
  /\ pc[t] = "put_lock"
  /\ PutLocked(t)
  /\ UNCHANGED << timeoutVars, capacity, waitThreads, objs, stopping, now, self, accepted,
                  stopRead, result, held, popped, forcedIssued >>

\* notFull.wait returns with the mutex held: the loop tests again
PutWake(t) ==
  /\ pc[t] = "put_woken"
  /\ PutLocked(t)
  /\ UNCHANGED << timeoutVars, capacity, waitThreads, objs, stopping, now, self, accepted,
                  stopRead, result, held, popped, forcedIssued >>

\* ---- Jobqueue::get --------------------------------------------------------
\* mutant of front(): the newest job instead of the oldest
front_Back(s) == IF s = << >> THEN NoJob ELSE s[Len(s)]

\* jobs.front() (NoJob stands for the absent job of an empty deque)
front(s) == IF s = << >> THEN NoJob ELSE Head(s)

\* mutant of pop_front(): the job stays in the queue
pop_front_Keeps(s) == s

\* jobs.pop_front()
pop_front(s) == IF s = << >> THEN s ELSE Tail(s)

\* mutant of the wait test: get() does not wait for a job
QueueEmpty_NoWait == FALSE

\* the wait test of get(): jobs.empty()
QueueEmpty == jobs = << >>

\* get() with the mutex held and w threads counted in waitThreads: wait on
\* notEmpty (releasing the mutex), or --waitThreads; j = jobs.front();
\* jobs.pop_front(); if (!jobs.empty() && waitThreads > 0) notEmpty.signal();
\* notFull.signal(); return j
GetLocked(t, w) ==
  IF QueueEmpty
    THEN /\ waitThreads' = w
         /\ pc' = [pc EXCEPT ![t] = "get_wait"]
         /\ UNCHANGED << jobs, popped, held >>
    ELSE /\ waitThreads' = w - 1
         /\ jobs' = pop_front(jobs)
         /\ popped' = Append(popped, front(jobs))
         /\ held' = [held EXCEPT ![t] = front(jobs)]
         /\ \E p1 \in (IF jobs' # << >> /\ waitThreads' > 0
                       THEN Signal([pc EXCEPT ![t] = "idle"], notEmpty, "get_woken")
                       ELSE { [pc EXCEPT ![t] = "idle"] }) :
               pc' \in Signal(p1, notFull, "put_woken")

\* a thread that owns no job calls queue.get(): MutexLock lock(mutex);
\* ++waitThreads and the code up to the first wait or the return
GetEnter(t) ==
  /\ pc[t] = "idle" /\ held[t] = NoJob
  /\ GetLocked(t, waitThreads + 1)
  /\ UNCHANGED << timeoutVars, capacity, noWaitSignal, objs, stopping, now, arg, force,
                  callVars, pushed, putReturned, forcedIssued >>

\* notEmpty.wait returns with the mutex held: the loop tests again
GetWake(t) ==
  /\ pc[t] = "get_woken"
  /\ GetLocked(t, waitThreads)
  /\ UNCHANGED << timeoutVars, capacity, noWaitSignal, objs, stopping, now, arg, force,
                  callVars, pushed, putReturned, forcedIssued >>

\* Condition::wait may return without a signal (pthread_cond_wait)
Spurious(t) ==
  /\ \/ pc[t] = "put_wait" /\ pc' = [pc EXCEPT ![t] = "put_woken"]
     \/ pc[t] = "get_wait" /\ pc' = [pc EXCEPT ![t] = "get_woken"]
  /\ UNCHANGED << timeoutVars, capacity, queueVars, objs, stopping, now, arg, force,
                  callVars, held, histVars, forcedIssued >>

\* ---- Tcpjob::getStream / SslTcpjob::getStream -------------------------------
\* mutant of shouldStop(): the server never reports that it stops
shouldStop_Never == FALSE

\* Tntnet::shouldStop()
shouldStop == stopping

\* mutant of the catch block: the exception of accept() is swallowed
Rethrows_Swallowed(t) == FALSE

\* the catch block of getStream() was entered: it ends with throw
Rethrows(t) == accepted[t] = "threw"

\* mutants of regenerateJob: SslTcpjob constructs a Tcpjob; the job is
\* constructed for the other listener
Regenerated_Plain(o) == NewJob("tcp", o.listener, o.application)
Regenerated_OtherListener(o) == NewJob(o.kind, 3 - o.listener, o.application)

\* the job regenerateJob() constructs: new Tcpjob(getRequest().getApplication(),
\* listener, queue) in Tcpjob, new SslTcpjob(...) in SslTcpjob
Regenerated(o) == NewJob(o.kind, o.listener, o.application)

\* mutant of the connection test: the socket never counts as connected
isConnected_Never(o) == FALSE

\* socket.isConnected()
isConnected(o) == o.connected

\* getStream() is called on the owned job: if (!socket.isConnected()) ... else
\* return socket
CallGetStream(t) ==
  /\ pc[t] = "idle" /\ held[t] # NoJob
  /\ self' = [self EXCEPT ![t] = held[t]]
  /\ IF isConnected(objs[held[t]])
       THEN /\ pc' = [pc EXCEPT ![t] = "gs_return"]
            /\ result' = [result EXCEPT ![t] = "stream"]
       ELSE /\ pc' = [pc EXCEPT ![t] = "gs_accept"]
            /\ UNCHANGED result
  /\ UNCHANGED << timeoutVars, capacity, queueVars, objs, stopping, now, arg, force,
                  accepted, stopRead, enq, held, histVars, forcedIssued >>

\* accept(): socket.accept(listener) connects the socket or throws
Accept(t, ok) ==
  /\ pc[t] = "gs_accept"
  /\ IF ok
       THEN /\ objs' = [objs EXCEPT ![self[t]].connected = TRUE]
            /\ accepted' = [accepted EXCEPT ![t] = "ok"]
       ELSE /\ accepted' = [accepted EXCEPT ![t] = "threw"]
            /\ UNCHANGED objs
  /\ pc' = [pc EXCEPT ![t] = "gs_regen"]
  /\ UNCHANGED << timeoutVars, capacity, queueVars, stopping, now, arg, force, self,
                  stopRead, result, enq, held, histVars, forcedIssued >>

\* regenerateJob(): if (Tntnet::shouldStop()) queue.put(this);
\* else queue.put(new ...job(application, listener, queue)); put() starts with
\* j->touch()
regenerateJob(t) ==
  /\ pc[t] = "gs_regen"
  /\ PutsStarted < MaxPuts
  /\ stopRead' = [stopRead EXCEPT ![t] = shouldStop]
  /\ IF shouldStop
       THEN /\ arg' = [arg EXCEPT ![t] = self[t]]
            /\ objs' = PutTouch(objs, self[t])
       ELSE /\ Len(objs) < MaxJobs
            /\ objs' = PutTouch(Append(objs, Regenerated(objs[self[t]])), Len(objs) + 1)
            /\ arg' = [arg EXCEPT ![t] = Len(objs) + 1]
  /\ force' = [force EXCEPT ![t] = DefaultForce]
  /\ pc' = [pc EXCEPT ![t] = "put_lock"]
  /\ UNCHANGED << timeoutVars, capacity, queueVars, stopping, now, self, accepted, result,
                  enq, held, histVars, forcedIssued >>

\* after regenerateJob(): the catch block rethrows; Tcpjob returns the socket;
\* SslTcpjob does if (!Tntnet::shouldStop()) handshake() first
AfterRegenerate(t) ==
  /\ pc[t] = "gs_after_regen"
  /\ IF Rethrows(t)
       THEN /\ result' = [result EXCEPT ![t] = "raised"]
            /\ pc' = [pc EXCEPT ![t] = "gs_return"]
            /\ UNCHANGED objs
       ELSE IF objs[self[t]].kind = "ssl" /\ ~shouldStop
         THEN /\ objs' = [objs EXCEPT ![self[t]].handshake = "InProgress"]
              /\ pc' = [pc EXCEPT ![t] = "gs_handshake"]
              /\ UNCHANGED result
         ELSE /\ result' = [result EXCEPT ![t] = "stream"]
              /\ pc' = [pc EXCEPT ![t] = "gs_return"]
              /\ UNCHANGED objs
  /\ UNCHANGED << timeoutVars, capacity, queueVars, stopping, now, arg, force, self,
                  accepted, stopRead, enq, held, histVars, forcedIssued >>

\* handshake(): socket.handshake(listener) completes or throws
handshake(t, ok) ==
  /\ pc[t] = "gs_handshake"
  /\ IF ok
       THEN /\ objs' = [objs EXCEPT ![self[t]].handshake = "Complete"]
            /\ result' = [result EXCEPT ![t] = "stream"]
       ELSE /\ result' = [result EXCEPT ![t] = "raised"]
            /\ UNCHANGED objs
  /\ pc' = [pc EXCEPT ![t] = "gs_return"]
  /\ UNCHANGED << timeoutVars, capacity, queueVars, stopping, now, arg, force, self,
                  accepted, stopRead, enq, held, histVars, forcedIssued >>

\* getStream() hands the socket or the exception to its caller
GetStreamReturn(t) ==
  /\ pc[t] = "gs_return"
  /\ pc' = [pc EXCEPT ![t] = "idle"]
  /\ self' = [self EXCEPT ![t] = NoJob]
  /\ accepted' = [accepted EXCEPT ![t] = "no"]
  /\ stopRead' = [stopRead EXCEPT ![t] = FALSE]
  /\ result' = [result EXCEPT ![t] = "none"]
  /\ enq' = [enq EXCEPT ![t] = << >>]
  /\ UNCHANGED << timeoutVars, capacity, queueVars, objs, stopping, now, arg, force, held,
                  histVars, forcedIssued >>

\* ---- environment ------------------------------------------------------------
\* the server is told to stop: Tntnet::shouldStop() becomes true
Stop ==
  /\ ~stopping
  /\ stopping' = TRUE
  /\ UNCHANGED << timeoutVars, capacity, queueVars, objs, now, pc, arg, force, callVars,
                  held, histVars, forcedIssued >>

\* the clock read by time() advances
Tick ==
  /\ now < MaxTime
  /\ now' = now + 1
  /\ UNCHANGED << timeoutVars, capacity, queueVars, objs, stopping, pc, arg, force,
                  callVars, held, histVars, forcedIssued >>

\* ---- Job::msecToTimeout ------------------------------------------------------
\* the keep-alive timeouts HttpReply::getKeepAliveTimeout() may report, the
\* values Job::socket_read_timeout may be configured to (milliseconds), and the
\* times a caller may pass (seconds)
KeepAliveTimeouts == {0, 1000, 1500}
SocketReadTimeouts == {0, 10, 1000}
QueryTimes == 0..MaxQuery

\* mutants of msecToTimeout(): the one-second pad left out; the read timeout
\* added instead of subtracted
msecToTimeout_NoPad(lastAccessTime, currentTime, keepAlive) ==
  (lastAccessTime - currentTime) * 1000 + keepAlive - socket_read_timeout
msecToTimeout_PlusRead(lastAccessTime, currentTime, keepAlive) ==
  (lastAccessTime - currentTime + 1) * 1000 + keepAlive + socket_read_timeout

\* return (lastAccessTime - currentTime + 1) * 1000 + getKeepAliveTimeout()
\*        - getSocketReadTimeout(); with the times and timeouts of this model
\* the result is far inside the range of int
msecToTimeout(lastAccessTime, currentTime, keepAlive) ==
  (lastAccessTime - currentTime + 1) * 1000 + keepAlive - socket_read_timeout

\* a caller asks job j for msecToTimeout(currentTime); getKeepAliveTimeout()
\* reports k
Query(j, currentTime, k) ==
  /\ j \in 1..Len(objs)
  /\ timeout' = [job |-> j,
                 lastAccessTime |-> objs[j].lastAccessTime,
                 currentTime |-> currentTime,
                 keepAlive |-> k,
                 msec |-> msecToTimeout(objs[j].lastAccessTime, currentTime, k)]
  /\ UNCHANGED << socket_read_timeout, capacity, queueVars, objs, stopping, now,
                  pc, arg, force, callVars, held, histVars, forcedIssued >>

\* jobs are put into an unbounded queue while the clock runs, and are asked
\* for their timeout; the read timeout is configured at startup
TimeoutInit ==
  /\ InitQueue /\ pc = Started(NWorkers) /\ capacity = 0
  /\ socket_read_timeout \in SocketReadTimeouts

TimeoutNext ==
  \/ \E t \in Threads, cfg \in SeedKinds : Seed(t, cfg, FALSE)
  \/ \E t \in Threads : PutEnter(t)
  \/ Tick
  \/ \E j \in 1..MaxJobs, c \in QueryTimes, k \in KeepAliveTimeouts : Query(j, c, k)

TimeoutSpec == TimeoutInit /\ [][TimeoutNext]_vars

Next ==
  \/ \E t \in Threads, cfg \in SeedKinds, f \in BOOLEAN : Seed(t, cfg, f)
  \/ \E t \in Threads, f \in BOOLEAN : CallPut(t, f)
  \/ \E t \in Threads : Discard(t)
  \/ \E t \in Threads : PutEnter(t)
  \/ \E t \in Threads : PutWake(t)
  \/ \E t \in Threads : GetEnter(t)
  \/ \E t \in Threads : GetWake(t)
  \/ \E t \in Threads : Spurious(t)
  \/ \E t \in Threads : CallGetStream(t)
  \/ \E t \in Threads, ok \in BOOLEAN : Accept(t, ok)
  \/ \E t \in Threads : regenerateJob(t)
  \/ \E t \in Threads : AfterRegenerate(t)
  \/ \E t \in Threads, ok \in BOOLEAN : handshake(t, ok)
  \/ \E t \in Threads : GetStreamReturn(t)
  \/ Stop

Spec == Init /\ [][Next]_vars

\* the same program with the clock running
TimedSpec == Init /\ [][Next \/ Tick]_vars

\* ---- the worker loop --------------------------------------------------------
\* Each worker repeats: j = queue.get(); j->getStream(); serve the connection;
\* then queue.put(j) when the connection goes idle (keep-alive), or drop j.

\* the queues the listeners leave behind at start-up: one job per listener
SeedQueues ==
  { << NewJob("tcp", 1, 1) >>,
    << NewJob("ssl", 2, 2) >>,
    << NewJob("tcp", 1, 1), NewJob("ssl", 2, 2) >> }

\* the listeners have seeded the queue with non-forced puts and 1..NWorkers
\* workers start
WorkerInit ==
  /\ capacity \in Capacities
  /\ objs \in SeedQueues
  /\ capacity > 0 => Len(objs) <= capacity
  /\ jobs = [i \in 1..Len(objs) |-> i]
  /\ pushed = jobs
  /\ putReturned = jobs
  /\ popped = << >>
  /\ waitThreads = 0
  /\ noWaitSignal = TRUE
  /\ InitCalls
  /\ pc \in { Started(n) : n \in 1..NWorkers }
  /\ socket_read_timeout = 10

\* getStream() has returned the socket, the request is served and the
\* connection goes idle: queue.put(j); put() starts with j->touch()
ServeKeepAlive(t) ==
  /\ pc[t] = "gs_return" /\ result[t] = "stream"
  /\ PutsStarted < MaxPuts
  /\ objs' = PutTouch(objs, held[t])
  /\ arg' = [arg EXCEPT ![t] = held[t]]
  /\ force' = [force EXCEPT ![t] = DefaultForce]
  /\ held' = [held EXCEPT ![t] = NoJob]
  /\ pc' = [pc EXCEPT ![t] = "put_lock"]
  /\ self' = [self EXCEPT ![t] = NoJob]
  /\ accepted' = [accepted EXCEPT ![t] = "no"]
  /\ stopRead' = [stopRead EXCEPT ![t] = FALSE]
  /\ result' = [result EXCEPT ![t] = "none"]
  /\ enq' = [enq EXCEPT ![t] = << >>]
  /\ UNCHANGED << timeoutVars, capacity, queueVars, stopping, now, histVars, forcedIssued >>

\* getStream() has thrown, or the connection was served and closed: the worker
\* drops the job
ServeDiscard(t) ==
  /\ pc[t] = "gs_return"
  /\ held' = [held EXCEPT ![t] = NoJob]
  /\ pc' = [pc EXCEPT ![t] = "idle"]
  /\ self' = [self EXCEPT ![t] = NoJob]
  /\ accepted' = [accepted EXCEPT ![t] = "no"]
  /\ stopRead' = [stopRead EXCEPT ![t] = FALSE]
  /\ result' = [result EXCEPT ![t] = "none"]
  /\ enq' = [enq EXCEPT ![t] = << >>]
  /\ UNCHANGED << timeoutVars, capacity, queueVars, objs, stopping, now, arg, force,
                  histVars, forcedIssued >>

WorkerNext ==
  \/ \E t \in Threads : GetEnter(t)
  \/ \E t \in Threads : GetWake(t)
  \/ \E t \in Threads : Spurious(t)
  \/ \E t \in Threads : CallGetStream(t)
  \/ \E t \in Threads, ok \in BOOLEAN : Accept(t, ok)
  \/ \E t \in Threads : regenerateJob(t)
  \/ \E t \in Threads : PutEnter(t)
  \/ \E t \in Threads : PutWake(t)
  \/ \E t \in Threads : AfterRegenerate(t)
  \/ \E t \in Threads, ok \in BOOLEAN : handshake(t, ok)
  \/ \E t \in Threads : ServeKeepAlive(t)
  \/ \E t \in Threads : ServeDiscard(t)
  \/ Stop

WorkerSpec == WorkerInit /\ [][WorkerNext]_vars

\* ---- properties -------------------------------------------------------------
JobIds == 1..Len(objs)
InPut(t) == pc[t] \in {"put_lock", "put_wait", "put_woken"}

\* C1: with capacity > 0 and no forced put ever issued, the queue never holds
\* more than capacity jobs, whatever the interleaving of put() and get()
C1_CapacityInvariant ==
  (capacity > 0 /\ ~forcedIssued) => Len(jobs) <= capacity

\* a put() has returned into a queue that is at its capacity again while
\* another non-forced put() is blocked on notFull
C1_Witness ==
  /\ capacity > 0 /\ ~forcedIssued
  /\ Len(jobs) = capacity
  /\ Len(pushed) > capacity
  /\ \E t \in Threads : pc[t] = "put_wait"

\* C2: a put(job, true) that holds the mutex never waits on notFull: its step
\* appends the job whatever the queue length is
C2_ForcedBypass ==
  [][\A t \in Threads :
       (pc[t] \in {"put_lock", "put_woken"} /\ force[t] /\ pc'[t] # pc[t])
         => /\ jobs' = Append(jobs, arg[t])
            /\ pc'[t] \notin {"put_wait", "put_woken"}]_vars

\* a forced put has appended to a queue that was already at its capacity
C2_Witness ==
  /\ capacity > 0 /\ Len(jobs) > capacity
  /\ forcedIssued

\* C3: the jobs get() has returned, in pop order, are a prefix of the jobs in
\* the order put() appended them
C3_Fifo ==
  /\ Len(popped) <= Len(pushed)
  /\ SubSeq(pushed, 1, Len(popped)) = popped

\* three different jobs have been appended and returned in the same order
C3_Witness ==
  /\ Len(popped) = 3
  /\ Cardinality({ popped[i] : i \in 1..3 }) = 3
  /\ popped = SubSeq(pushed, 1, 3)

\* C5: every get() consumes an append of its own: no job has been returned more
\* often than it was appended, and two threads own the same job only if it was
\* appended twice
C5_SingleOwnerHandOff ==
  /\ \A j \in JobIds : Count(popped, j) <= Count(pushed, j)
  /\ \A t1, t2 \in Threads :
       (t1 # t2 /\ held[t1] # NoJob /\ held[t1] = held[t2])
         => Count(pushed, held[t1]) >= 2

\* two threads have each been handed a job by get(), and the jobs differ
C5_Witness ==
  /\ Len(popped) >= 2
  /\ \E t1, t2 \in Threads :
       /\ t1 # t2 /\ held[t1] # NoJob /\ held[t2] # NoJob
       /\ held[t1] # held[t2]
       /\ held[t1] = popped[Len(popped)] /\ held[t2] = popped[Len(popped) - 1]

\* C6: every job whose put() has returned is in the queue or has been returned
\* by a get(), and get() returns a job that exists, the head of the queue
C6_NothingLostNothingAbsent ==
  /\ \A j \in JobIds :
       Count(putReturned, j) = Count(jobs, j) + Count(popped, j)
  /\ \A i \in 1..Len(popped) : popped[i] \in JobIds
  /\ pushed = popped \o jobs
  /\ \A t \in Threads : held[t] # NoJob => held[t] \in JobIds

\* every put() the bounds allow has returned, two of the jobs have been handed
\* out by get(), the last of them to a thread that still owns it, and a job
\* is still queued
C6_Witness ==
  /\ Len(popped) >= 2 /\ Len(putReturned) = MaxPuts
  /\ jobs # << >>
  /\ \E t \in Threads : held[t] = popped[Len(popped)]

\* ---- the queue alone, with capacity 1, under fair scheduling ---------------
InitOne == Init /\ capacity = 1

\* a thread that can take the mutex or return from a wait eventually does;
\* nothing forces a caller to call, accept() to return or a wait to end
\* without a signal
Fairness ==
  \A t \in Threads :
    /\ WF_vars(PutEnter(t)) /\ WF_vars(PutWake(t))
    /\ WF_vars(GetWake(t))
    /\ WF_vars(AfterRegenerate(t)) /\ WF_vars(GetStreamReturn(t))

LiveSpec == InitOne /\ [][Next]_vars /\ Fairness

\* C4: with capacity 1, the notFull signal of a get() unblocks a producer that
\* waits on notFull, and a producer that waited while the queue was full does
\* not stay in put() once a slot is free: it appends its job and returns
\* unless another producer fills the slot first
C4_NoLostProducerWakeup ==
  /\ [][(capacity = 1 /\ notFull # {} /\ Len(popped') = Len(popped) + 1)
          => \E p \in notFull : pc'[p] = "put_woken"]_vars
  /\ \A p \in Threads :
       (capacity = 1 /\ pc[p] \in {"put_wait", "put_woken"} /\ Len(jobs) < capacity)
         ~> (~InPut(p) \/ Len(jobs) >= capacity)

\* one get() has emptied the full queue and unblocked the waiting producer
C4_Witness ==
  /\ capacity = 1 /\ ~forcedIssued
  /\ Len(popped) = 1 /\ jobs = << >>
  /\ \E p \in Threads : pc[p] = "put_woken"

\* C7: a getStream() on a job that was not connected, with shouldStop() false
\* in regenerateJob(), has enqueued exactly one job when it returns or throws:
\* another job of the same kind, listener and application; it never enqueues two
C7_RegenerationInvariant ==
  \A t \in Threads :
    /\ self[t] # NoJob => Len(enq[t]) <= 1
    /\ (pc[t] = "gs_return" /\ accepted[t] # "no" /\ ~stopRead[t])
         => /\ Len(enq[t]) = 1
            /\ enq[t][1] \in JobIds
            /\ enq[t][1] > self[t]
            /\ Count(pushed, enq[t][1]) >= 1
            /\ objs[enq[t][1]].kind = objs[self[t]].kind
            /\ objs[enq[t][1]].listener = objs[self[t]].listener
            /\ objs[enq[t][1]].application = objs[self[t]].application

\* an encrypted job whose accept() threw is about to re-raise, the server not
\* stopping
C7_Witness ==
  \E t \in Threads :
    /\ pc[t] = "gs_return" /\ accepted[t] = "threw" /\ ~stopRead[t]
    /\ result[t] = "raised"
    /\ objs[self[t]].kind = "ssl"

\* C8: the handshake of an encrypted job runs only after accept() succeeded and
\* the put() of regenerateJob() returned, and the handshake step enqueues
\* nothing
C8_HandshakeAfterRegeneration ==
  /\ [](\A t \in Threads :
          pc[t] = "gs_handshake"
            => /\ accepted[t] = "ok"
               /\ Len(enq[t]) = 1
               /\ Count(pushed, enq[t][1]) >= 1)
  /\ [](\A j \in JobIds : objs[j].handshake # "NotStarted" => objs[j].connected)
  /\ [][\A t \in Threads :
          (pc[t] = "gs_handshake" /\ pc'[t] # "gs_handshake")
            => /\ pushed' = pushed /\ jobs' = jobs
               /\ enq'[t] = enq[t]]_vars

\* a handshake has thrown after the replacement job was enqueued
C8_Witness ==
  \E t \in Threads :
    /\ pc[t] = "gs_return" /\ result[t] = "raised" /\ accepted[t] = "ok"
    /\ objs[self[t]].handshake = "InProgress"
    /\ Len(enq[t]) = 1

\* C9: regenerateJob() with shouldStop() true puts the calling job itself and
\* constructs no job; with shouldStop() false it constructs a job and puts
\* that one, not the calling job
C9_StoppingSelfRequeue ==
  /\ [](\A t \in Threads :
          (pc[t] \in {"gs_after_regen", "gs_handshake", "gs_return"}
             /\ accepted[t] # "no")
            => IF stopRead[t] THEN enq[t] = << self[t] >>
               ELSE Len(enq[t]) = 1 /\ enq[t][1] # self[t])
  /\ [][\A t \in Threads :
          (pc[t] = "gs_regen" /\ pc'[t] # "gs_regen")
            => IF stopping
                 THEN arg'[t] = self[t] /\ Len(objs') = Len(objs)
                 ELSE /\ Len(objs') = Len(objs) + 1
                      /\ arg'[t] = Len(objs') /\ arg'[t] # self[t]]_vars

\* a job has put itself back while the server stops, and is in the queue
C9_Witness ==
  \E t \in Threads :
    /\ pc[t] = "gs_return" /\ stopRead[t]
    /\ enq[t] = << self[t] >>
    /\ Count(jobs, self[t]) >= 1

\* C10: the put() that regenerateJob() issues while the server stops never
\* blocks on a full queue
C10_StopRegenerationNeverBlocks ==
  \A t \in Threads :
    (self[t] # NoJob /\ stopRead[t] /\ arg[t] = self[t]) => pc[t] # "put_wait"

\* C11: msecToTimeout(t) = (t0 - t + 1) * 1000 + K - R for the job's
\* lastAccessTime t0, keep-alive timeout K and read timeout R; at t = t0 it is
\* 1000 + K - R, and one second later it is 1000 less
C11_TimeoutArithmetic ==
  timeout # NoTimeout =>
    /\ timeout.msec = (timeout.lastAccessTime - timeout.currentTime + 1) * 1000
                        + timeout.keepAlive - socket_read_timeout
    /\ timeout.currentTime = timeout.lastAccessTime
         => timeout.msec = 1000 + timeout.keepAlive - socket_read_timeout
    /\ msecToTimeout(timeout.lastAccessTime, timeout.currentTime + 1,
                     timeout.keepAlive) = timeout.msec - 1000

\* a job touched after the clock moved is asked at its own lastAccessTime,
\* with the read timeout of 10
C11_Witness ==
  /\ timeout # NoTimeout
  /\ timeout.lastAccessTime > 0
  /\ timeout.currentTime = timeout.lastAccessTime
  /\ timeout.keepAlive = 1500 /\ socket_read_timeout = 10
  /\ timeout.msec = 2490

\* C12 as stated: msecToTimeout(t) <= 0 for every t >= t0 + K/1000
C12_ExpiredAtWindowEnd ==
  (timeout # NoTimeout
     /\ timeout.currentTime * 1000 >= timeout.lastAccessTime * 1000 + timeout.keepAlive)
    => timeout.msec <= 0

\* C12 as amended: msecToTimeout(t) <= 0 for every t >= t0 + 1 + K/1000, one
\* second (the pad) after the keep-alive window has elapsed
C12_ExpiredAfterPad ==
  (timeout # NoTimeout
     /\ timeout.currentTime * 1000
          >= (timeout.lastAccessTime + 1) * 1000 + timeout.keepAlive)
    => timeout.msec <= 0

\* a job is asked exactly one second after its keep-alive window of 1000 ms,
\* with the read timeout of 10: the result is -10
C12_Witness ==
  /\ timeout # NoTimeout
  /\ timeout.keepAlive = 1000 /\ socket_read_timeout = 10
  /\ timeout.currentTime = timeout.lastAccessTime + 2
  /\ timeout.msec = -10

\* C13: getStream() on a job whose socket is connected goes straight to
\* returning the socket: no accept(), regenerateJob() or handshake() runs, and
\* jobs, waitThreads and the job objects (lastAccessTime, socket, handshake
\* state) stay as they are until it has returned
C13_ConnectedGetStreamIdempotent ==
  /\ [](\A t \in Threads :
          (pc[t] = "gs_return" /\ accepted[t] = "no")
            => result[t] = "stream" /\ enq[t] = << >> /\ arg[t] = NoJob)
  /\ [][\A t \in Threads :
          /\ (pc[t] = "idle" /\ self'[t] # NoJob /\ objs[held[t]].connected)
               => /\ pc'[t] = "gs_return"
                  /\ jobs' = jobs /\ waitThreads' = waitThreads
                  /\ objs' = objs /\ pushed' = pushed
          /\ (pc[t] = "gs_return" /\ accepted[t] = "no" /\ pc'[t] # "gs_return")
               => /\ pc'[t] = "idle"
                  /\ jobs' = jobs /\ waitThreads' = waitThreads
                  /\ objs' = objs /\ pushed' = pushed]_vars

\* a second getStream() on a job that an earlier call connected is returning
C13_Witness ==
  \E t \in Threads :
    /\ pc[t] = "gs_return" /\ accepted[t] = "no" /\ result[t] = "stream"
    /\ objs[self[t]].connected
    /\ Len(pushed) >= 2

\* C14: single ownership in the worker loop: a job that a worker owns (between
\* get() returning it and the worker putting it back or dropping it) is not in
\* the queue at the same time, and no two workers own the same job; also while
\* the server stops.
C14_SingleOwnership ==
  \A t \in Threads :
    held[t] # NoJob =>
      /\ Count(jobs, held[t]) = 0
      /\ \A u \in Threads \ {t} : held[u] # held[t]

\* the listeners that were seeded with a job
SeededListeners == { objs[pushed[i]].listener : i \in 1..Len(pushed) }

\* the pending-accept jobs of listener l: not yet connected, and queued or owned
\* by a worker whose accept() has not returned
PendingAccept(l) ==
  { j \in JobIds :
      /\ objs[j].listener = l /\ ~objs[j].connected
      /\ \/ Count(jobs, j) > 0
         \/ \E t \in Threads : held[t] = j /\ accepted[t] = "no" }

\* the worker t is between accept() returning and the end of regenerateJob()'s
\* put, for a job of listener l
Regenerating(t, l) ==
  /\ self[t] # NoJob /\ objs[self[t]].listener = l
  /\ pc[t] = "gs_regen" \/ InPut(t)

\* C15 as stated: while the server does not stop, every seeded listener has a
\* pending-accept job in flight in every state, the interval between accept()
\* returning and regenerateJob()'s put completing included.
C15_AcceptCapacityAlways ==
  ~stopping => \A l \in SeededListeners : PendingAccept(l) # {}

\* C15, amended: while the server does not stop, every seeded listener has a
\* pending-accept job in flight, or a worker is between accept() returning and
\* the end of regenerateJob()'s put for a job of that listener.
C15_AcceptCapacityOutsideRegeneration ==
  ~stopping =>
    \A l \in SeededListeners :
      PendingAccept(l) # {} \/ \E t \in Threads : Regenerating(t, l)

\* a worker has accepted and regenerated, the server does not stop, and the
\* regenerated job is the pending-accept job of the listener
C15_Witness ==
  /\ ~stopping
  /\ \E t \in Threads :
       /\ pc[t] = "gs_return" /\ accepted[t] = "ok" /\ enq[t] # << >>
       /\ enq[t][1] \in PendingAccept(objs[self[t]].listener)

\* the put() of thread t appends its job in this step
Appends(t) == InPut(t) /\ ~InPut(t)' /\ pushed' = Append(pushed, arg[t])

\* C16 as stated: for every put(), forced or not, blocked or not, the
\* lastAccessTime of the job equals the clock at the moment the job is appended.
C16_StampedAtAppend ==
  [][\A t \in Threads : Appends(t) => objs[arg[t]].lastAccessTime = now]_vars

\* C16, amended: for every put(), the lastAccessTime of the job equals the clock
\* at the moment put() is entered, before the mutex is taken and before any wait
\* for capacity; when the job is appended the stamp is not later than the clock.
C16_StampedAtEntry ==
  /\ [][\A t \in Threads :
          (~InPut(t) /\ InPut(t)') => objs'[arg'[t]].lastAccessTime = now]_vars
  /\ [][\A t \in Threads : Appends(t) => objs[arg[t]].lastAccessTime <= now]_vars

\* a put() that waited for capacity is about to append a job whose stamp is
\* older than the clock
C16_Witness ==
  \E t \in Threads :
    /\ pc[t] = "put_woken" /\ ~QueueFull(force[t])
    /\ objs[arg[t]].lastAccessTime < now

\* the threads that have entered get() and not yet left its wait loop
InGetLoop == { t \in Threads : pc[t] \in {"get_wait", "get_woken"} }

\* C17: waitThreads is never negative and, whenever the mutex is free, equals the
\* number of threads that entered get() and have not passed its wait loop; a
\* put() emits the no-waiters signal only when no thread is blocked in get().
C17_WaitThreadsCount ==
  /\ [](waitThreads >= 0 /\ waitThreads = Cardinality(InGetLoop))
  /\ [][(pushed' # pushed /\ noWaitSignal') => InGetLoop = {}]_vars

\* a put() has appended a job while a thread was blocked in get(), and has not
\* emitted the no-waiters signal
C17_Witness ==
  /\ pushed # << >> /\ jobs # << >> /\ ~noWaitSignal
  /\ waitThreads = 1
  /\ \E t \in Threads : pc[t] = "get_woken"

\* ---- the queue alone, with every thread running, under fair scheduling ------
QueueInit == InitQueue /\ pc = Started(NThreads) /\ socket_read_timeout = 10

QueueNext ==
  \/ \E t \in Threads, cfg \in SeedKinds, f \in BOOLEAN : Seed(t, cfg, f)
  \/ \E t \in Threads, f \in BOOLEAN : CallPut(t, f)
  \/ \E t \in Threads : Discard(t)
  \/ \E t \in Threads : PutEnter(t)
  \/ \E t \in Threads : PutWake(t)
  \/ \E t \in Threads : GetEnter(t)
  \/ \E t \in Threads : GetWake(t)
  \/ \E t \in Threads : Spurious(t)

QueueLiveSpec == QueueInit /\ [][QueueNext]_vars /\ Fairness

\* C18: under fair scheduling no consumer stays blocked in get() while jobs
\* remain queued: a thread that waits in get() while the queue is not empty
\* eventually returns from get(), or the queue becomes empty (the jobs were
\* handed to other consumers); so k blocked consumers drain k available jobs.
C18_NoLostConsumerWakeup ==
  \A c \in Threads :
    (c \in InGetLoop /\ jobs # << >>) ~> (c \notin InGetLoop \/ jobs = << >>)

\* two jobs are queued while two consumers are in the wait loop of get()
C18_Witness ==
  /\ Len(jobs) >= 2
  /\ Cardinality(InGetLoop) >= 2

\* every running worker is inside put(), waiting on notFull with the queue
\* full: no thread is left to call get() and free a slot
AllBlockedInPut ==
  \A t \in Threads :
    pc[t] # "off" => pc[t] \in {"put_wait", "put_woken"} /\ QueueFull(force[t])

\* C19 as stated: with capacity > 0 and a server that does not stop, the worker
\* loop get -> getStream (regenerating with a non-forced put) -> serve ->
\* (non-forced put of the same job | discard) never reaches a state in which
\* every worker is blocked in put() while no thread can call get().
C19_NoWorkerDeadlock ==
  (capacity > 0 /\ ~stopping) => ~AllBlockedInPut

\* C20 as stated: while shouldStop() stays false, every stream that
\* SslTcpjob::getStream() returns belongs to a socket whose handshake is
\* Complete, for every sequence of getStream() calls on the same job, also for a
\* call after one in which accept() succeeded and handshake() threw.
C20_StreamImpliesHandshake ==
  \A t \in Threads :
    (/\ ~stopping
     /\ pc[t] = "gs_return" /\ result[t] = "stream"
     /\ objs[self[t]].kind = "ssl")
      => objs[self[t]].handshake = "Complete"

====
